---- MODULE Spec2Model ----
(***************************************************************************)
(* Model of SPL_Combined_PlaywrightV2.py: the Steam / GoCleCD price        *)
(* comparator.  The program is sequential; the state is the position in   *)
(* the code (pc), the locals of the running functions, the browser        *)
(* session and what the rendered page has shown so far.                   *)
(*                                                                         *)
(* Amounts are integers of euro cents.  Times are milliseconds since the  *)
(* first wait on the current page began.  An optional value is a sequence *)
(* of length 0 (None) or 1 (Some(v)).  A text is a sequence of characters.*)
(***************************************************************************)
EXTENDS Integers, Sequences, FiniteSets, TLC

VARIABLES
    games,          \* the catalogue handed to compare_prices_to_excel
    i,              \* index of the game the for-loop is at (1-based)
    results,        \* list of rows built so far
    report,         \* rows as written to the file (sorted), None before
    pc,             \* position in the code
    steam_price,    \* local of compare_prices_to_excel
    goclecd_data,   \* value returned by get_goclecd_price
    pw,             \* sync_playwright() context is entered
    browser,        \* "none" | "open" | "closed"
    closeCalls,     \* browser.close() calls of the current call
    teardownKills,  \* sessions ended by the exit of the with block
    page,           \* what the page has rendered / will render
    product_url,    \* local of get_goclecd_price
    visited,        \* pipeline states entered by the current call
    navigated,      \* URLs handed to page.goto by the current call
    outcome,        \* how the last get_goclecd_price call ended
    ck,             \* locals of accept_cookies_if_present
    ex,             \* locals of extract_first_offer / wait_for_offer_rows
    fn              \* frame of the function a function specification runs

vars == <<games, i, results, report, pc, steam_price, goclecd_data, pw,
          browser, closeCalls, teardownKills, page, product_url, visited,
          navigated, outcome, ck, ex, fn>>

----------------------------------------------------------------------------
(* Optional values *)

None == <<>>

Some(v) == <<v>>

IsNone(o) == o = <<>>

Val(o) == o[1]

----------------------------------------------------------------------------
(* Bounds of the model *)

MaxGames == 2

\* Largest amount (cents) of the function specifications, next to the
\* amounts the specification's examples name.
MaxCents == 12

----------------------------------------------------------------------------
(* Program constants *)

OfferTimeoutMs == 25000

RetryPauseMs == 1000

LinkTimeoutMs == 10000

LinkGraceMs == 1500

Never == 0 - 1

\* Moments (ms after the first wait on a page began) at which the first
\* result link, and the parts of the offer table, may show.
LinkDelays == {0, 11000}

OfferDelays == {0, 30000}

----------------------------------------------------------------------------
(* parse_price_text *)

Digits == {"0", "1", "2", "3", "4", "5", "6", "7", "8", "9"}

Whitespace == {" "}

DigitVal(c) ==
    CASE c = "0" -> 0 [] c = "1" -> 1 [] c = "2" -> 2 [] c = "3" -> 3
      [] c = "4" -> 4 [] c = "5" -> 5 [] c = "6" -> 6 [] c = "7" -> 7
      [] c = "8" -> 8 [] c = "9" -> 9

\* re.sub(r"[^\d,.\s]", "", text)
RECURSIVE StripOthers(_)
StripOthers(t) ==
    IF t = <<>> THEN <<>>
    ELSE IF Head(t) \in Digits \cup {",", "."} \cup Whitespace
         THEN <<Head(t)>> \o StripOthers(Tail(t))
         ELSE StripOthers(Tail(t))

\* str.strip()
RECURSIVE LStrip(_)
LStrip(t) ==
    IF t # <<>> /\ Head(t) \in Whitespace THEN LStrip(Tail(t)) ELSE t

RECURSIVE RStrip(_)
RStrip(t) ==
    IF t # <<>> /\ t[Len(t)] \in Whitespace
    THEN RStrip(SubSeq(t, 1, Len(t) - 1))
    ELSE t

Strip(t) == LStrip(RStrip(t))

\* The text with its commas left as they are.
CommaKept(t) == t

\* str.replace(",", ".")
CommaToPeriod(t) == [k \in 1..Len(t) |-> IF t[k] = "," THEN "." ELSE t[k]]

\* Length of the run of digits of t that starts at position k.
RECURSIVE DigitRun(_, _)
DigitRun(t, k) ==
    IF k <= Len(t) /\ t[k] \in Digits THEN 1 + DigitRun(t, k + 1) ELSE 0

RECURSIVE DigitsValue(_)
DigitsValue(t) ==
    IF t = <<>> THEN 0
    ELSE 10 * DigitsValue(SubSeq(t, 1, Len(t) - 1)) + DigitVal(t[Len(t)])

Min(a, b) == IF a <= b THEN a ELSE b

Max(a, b) == IF a >= b THEN a ELSE b

\* re.search(r"\d+(\.\d{1,2})?", cleaned) and float(m.group(0)), in cents.
MatchValue(t) ==
    LET starts == {k \in 1..Len(t) : t[k] \in Digits}
    IN  IF starts = {} THEN None
        ELSE LET s == CHOOSE k \in starts : \A q \in starts : k <= q
                 n == DigitRun(t, s)
                 e == s + n
                 f == IF e <= Len(t) /\ t[e] = "."
                      THEN Min(DigitRun(t, e + 1), 2) ELSE 0
                 whole == DigitsValue(SubSeq(t, s, e - 1))
                 frac == DigitsValue(SubSeq(t, e + 1, e + f))
             IN  Some(100 * whole + (IF f = 1 THEN 10 * frac ELSE frac))

\* The same with 0 in place of None for a text without number.
parse_price_text_zero_default(text) ==
    IF IsNone(text) \/ Val(text) = <<>> THEN Some(0)
    ELSE LET v == MatchValue(CommaToPeriod(Strip(StripOthers(Val(text)))))
         IN  IF IsNone(v) THEN Some(0) ELSE v

parse_price_text(text) ==
    IF IsNone(text) \/ Val(text) = <<>> THEN None
    ELSE MatchValue(CommaToPeriod(Strip(StripOthers(Val(text)))))

----------------------------------------------------------------------------
(* get_steam_price *)

\* What the appdetails request can come back with, next to a final price:
\* no response, a body that is no JSON, a JSON without the app id key or
\* without "success", success = false, success without "data", data
\* without "price_overview" or with an empty one, a price overview without
\* "final".
SteamFailures ==
    {"conn_fail", "timeout", "not_json", "no_key", "no_success_key",
     "success_false", "no_data", "no_final"}

SteamNoOverview == {"no_price_overview", "empty_price_overview"}

SteamFinal(f) == [kind |-> "final", final |-> f]

SteamResponses ==
    {[kind |-> k, final |-> 0] : k \in SteamFailures \cup SteamNoOverview}
    \cup {SteamFinal(f) : f \in {0, 1999}}

\* How a call ends: a returned value, or an error raised to the caller.
Returned(v) == [raised |-> FALSE, value |-> v]

Raised == [raised |-> TRUE, value |-> None]

\* The same with `return None` in the else branch of line 55.
get_steam_price_absent_overview(resp) ==
    CASE resp.kind \in SteamFailures -> Returned(None)
      [] resp.kind \in SteamNoOverview -> Returned(None)
      [] resp.kind = "final" -> Returned(Some(resp.final))

\* The same with the request of line 49 outside the try block.
get_steam_price_request_unguarded(resp) ==
    CASE resp.kind \in {"conn_fail", "timeout"} -> Raised
      [] resp.kind \in SteamFailures \ {"conn_fail", "timeout"} ->
            Returned(None)
      [] resp.kind \in SteamNoOverview -> Returned(Some(0))
      [] resp.kind = "final" -> Returned(Some(resp.final))

get_steam_price(resp) ==
    CASE resp.kind \in {"conn_fail", "timeout"} -> Returned(None)   \* 49, 57
      [] resp.kind = "not_json" -> Returned(None)                    \* 50, 57
      [] resp.kind \in {"no_key", "no_success_key"} -> Returned(None) \* 51, 57
      [] resp.kind = "success_false" -> Returned(None)               \* 51, 59
      [] resp.kind = "no_data" -> Returned(None)                     \* 52, 57
      [] resp.kind \in SteamNoOverview -> Returned(Some(0))          \* 53, 56
      [] resp.kind = "no_final" -> Returned(None)                    \* 54, 57
      [] resp.kind = "final" -> Returned(Some(resp.final))           \* 54

----------------------------------------------------------------------------
(* calculate_savings: (savings_eur, savings_pct); the percentage is the    *)
(* exact fraction num / den.                                               *)

\* The same without the guard against a reference of zero.
calculate_savings_unguarded(steam, goclecd) ==
    IF IsNone(steam) \/ IsNone(goclecd)
    THEN <<None, None>>
    ELSE LET savings_eur == Val(steam) - Val(goclecd)
         IN  <<Some(savings_eur),
               Some([num |-> 100 * savings_eur, den |-> Val(steam)])>>

\* The same with `not goclecd_price` in place of `goclecd_price is None`.
calculate_savings_falsy(steam, goclecd) ==
    IF IsNone(steam) \/ IsNone(goclecd) \/ goclecd = Some(0)
          \/ steam = Some(0)
    THEN <<None, None>>
    ELSE LET savings_eur == Val(steam) - Val(goclecd)
         IN  <<Some(savings_eur),
               Some([num |-> 100 * savings_eur, den |-> Val(steam)])>>

calculate_savings(steam, goclecd) ==
    IF IsNone(steam) \/ IsNone(goclecd) \/ steam = Some(0)
    THEN <<None, None>>
    ELSE LET savings_eur == Val(steam) - Val(goclecd)
         IN  <<Some(savings_eur),
               Some([num |-> 100 * savings_eur, den |-> Val(steam)])>>

\* round(x, 2) of num / den, in hundredths: nearest, ties to even.
Round2(q) ==
    LET n == 100 * q.num
        fl == n \div q.den
        r2 == 2 * (n - fl * q.den)
    IN  IF r2 < q.den THEN fl
        ELSE IF r2 > q.den THEN fl + 1
        ELSE IF fl % 2 = 0 THEN fl ELSE fl + 1

----------------------------------------------------------------------------
(* Inputs *)

\* Titles are texts; ids are Steam app ids.
GameSet == {<<10, <<"A", " ", "B">>>>, <<20, <<"C">>>>}

RECURSIVE SeqsUpTo(_, _)
SeqsUpTo(S, n) ==
    IF n = 0 THEN {<<>>}
    ELSE LET shorter == SeqsUpTo(S, n - 1)
         IN  shorter \cup {Append(q, x) : q \in shorter, x \in S}

Catalogs == SeqsUpTo(GameSet, MaxGames) \ {<<>>}

\* href of the first result link: missing, empty, or a product URL.
Hrefs == {None, Some(""), Some("/fr/p1")}

\* text_content() of the first row's price span (None: no text node).
PriceTexts == {None, Some(<<"1", "2", ",", "5", "0", " ", "E">>),
               Some(<<"a", "b", "c">>)}

\* text_content() of the first row's merchant link.
MerchantTexts == {None, Some(<<" ">>), Some(<<" ", "S">>)}

NA == <<"N", "/", "A">>

----------------------------------------------------------------------------
(* The page: what it has shown so far.  A field is Unknown until the      *)
(* program first looks at it; then the environment fixes it.              *)

Unknown == 0 - 2

BlankPage ==
    [now |-> 0, linkAt |-> Unknown, tableAt |-> Unknown,
     rowAt |-> Unknown, priceAt |-> Unknown, holder |-> "unknown",
     scrolled |-> FALSE]

\* The moments the environment may still choose for a field that shows no
\* earlier than notBefore (a row is inside the table, a price inside a row).
Choices(known, delays, notBefore) ==
    IF known # Unknown THEN {known}
    ELSE IF notBefore = Never THEN {Never}
    ELSE {a \in delays : a >= notBefore} \cup {Never}

\* wait_for_selector / locator.wait_for with a timeout: the element shows
\* at moment at; the call starts at moment now.
\* A wait that returns without looking at the page.
WaitOkUnchecked(at, now, timeout) == TRUE

WaitOk(at, now, timeout) == at # Never /\ at <= now + timeout

WaitEnd(at, now, timeout) ==
    IF WaitOk(at, now, timeout) THEN Max(now, at) ELSE now + timeout

----------------------------------------------------------------------------
(* Idle values of the locals *)

CkIdle ==
    [sel |-> 0, seen |-> <<>>, clicks |-> <<>>, swallowed |-> FALSE,
     raised |-> FALSE]

ExIdle ==
    [attempt |-> 0, start |-> 0, steps |-> <<>>, waits |-> <<>>,
     paused |-> FALSE, read |-> FALSE, price_text |-> None,
     price |-> None, merchant_el |-> FALSE, merchant_text |-> None,
     merchant |-> None]

\* No function specification is running.
FnIdle == [op |-> "none"]

Init ==
    /\ games \in Catalogs
    /\ i = 1
    /\ results = <<>>
    /\ report = None
    /\ pc = "loop"
    /\ steam_price = None
    /\ goclecd_data = None
    /\ pw = FALSE
    /\ browser = "none"
    /\ closeCalls = 0
    /\ teardownKills = 0
    /\ page = BlankPage
    /\ product_url = None
    /\ visited = <<>>
    /\ navigated = <<>>
    /\ outcome = "none"
    /\ ck = CkIdle
    /\ ex = ExIdle
    /\ fn = FnIdle

loopVars == <<games, i, results, report>>

sessionVars == <<pw, browser, closeCalls, teardownKills>>

----------------------------------------------------------------------------
(* compare_prices_to_excel, lines 182-184, and get_steam_price *)

\* lines 47-49: the request is sent and answered (or fails)
RequestSteamPrice ==
    /\ pc = "loop"
    /\ i <= Len(games)
    /\ \E resp \in SteamResponses :
          fn' = [op |-> "get_steam_price", reply |-> resp]
    /\ pc' = "steam"
    /\ UNCHANGED <<loopVars, steam_price, goclecd_data, sessionVars, page,
                   product_url, visited, navigated, outcome, ck, ex>>

\* Where an error raised inside the loop of compare_prices_to_excel goes:
\* the loop has no handler (lines 182-208), nor has the main block (line
\* 234).
Handler == "aborted"

\* lines 50-59 and 184
GetSteamPrice ==
    /\ pc = "steam"
    /\ LET r == get_steam_price(fn.reply)
       IN  /\ pc' = IF r.raised THEN Handler ELSE "launch"
           /\ steam_price' = r.value
    /\ fn' = FnIdle
    /\ UNCHANGED <<loopVars, goclecd_data, sessionVars, page, product_url,
                   visited, navigated, outcome, ck, ex>>

----------------------------------------------------------------------------
(* get_goclecd_price *)

\* name.replace(' ', '+')
PlusForSpace(name) ==
    [k \in 1..Len(name) |-> IF name[k] = " " THEN "+" ELSE name[k]]

\* A URL: a fixed part and the text appended to it.
Url(base) == [base |-> base, rest |-> <<>>]

SearchUrl(name) ==
    [base |-> "https://www.goclecd.fr/produits/?search_name=",
     rest |-> PlusForSpace(name)]

\* A step of the with block that either completes or raises.
Step(from, to, ok) ==
    /\ pc = from
    /\ pc' = IF ok THEN to ELSE "unwind"

\* lines 126-127: enter sync_playwright(), launch the browser
Launch ==
    \E ok \in BOOLEAN :
        /\ Step("launch", "new_page", ok)
        /\ pw' = TRUE
        /\ browser' = IF ok THEN "open" ELSE "none"
        /\ closeCalls' = 0
        /\ teardownKills' = 0
        /\ visited' = <<"Init">>
        /\ navigated' = <<>>
        /\ outcome' = "running"
        /\ UNCHANGED <<fn, loopVars, steam_price, goclecd_data, page,
                       product_url, ck, ex>>

\* line 128
NewPage ==
    \E ok \in BOOLEAN :
        /\ Step("new_page", "s_goto", ok)
        /\ UNCHANGED <<fn, loopVars, steam_price, goclecd_data, sessionVars,
                       page, product_url, visited, navigated, outcome, ck,
                       ex>>

\* line 129
SearchGoto ==
    \E ok \in BOOLEAN :
        /\ Step("s_goto", "s_dom", ok)
        /\ visited' = Append(visited, "SearchNav")
        /\ navigated' = Append(navigated, SearchUrl(games[i][2]))
        /\ page' = BlankPage
        /\ UNCHANGED <<fn, loopVars, steam_price, goclecd_data, sessionVars,
                       product_url, outcome, ck, ex>>

\* lines 130 and 153: wait_for_load_state("domcontentloaded"), then the
\* call of accept_cookies_if_present
DomReady(from, to) ==
    \E ok \in BOOLEAN :
        /\ Step(from, to, ok)
        /\ ck' = IF ok THEN [CkIdle EXCEPT !.sel = 1] ELSE ck
        /\ UNCHANGED <<fn, loopVars, steam_price, goclecd_data, sessionVars,
                       page, product_url, visited, navigated, outcome, ex>>

SearchDomReady == DomReady("s_dom", "s_cookies")

ProductDomReady == DomReady("p_dom", "p_cookies")

\* One turn of the loop of accept_cookies_if_present (lines 79-86) on
\* selector c.sel.  o is what the page does: "absent" (query_selector
\* returns None), "lookup_raise", "click_ok", "click_raise".
CookieOutcomes == {"absent", "lookup_raise", "click_ok", "click_raise"}

NumSelectors == 4

\* The same turn with the click of line 83 outside the try block.
accept_turn_click_unguarded(c, o) ==
    CASE o = "absent" ->
            [c EXCEPT !.sel = c.sel + 1, !.seen = Append(c.seen, o)]
      [] o = "lookup_raise" ->
            [c EXCEPT !.sel = c.sel + 1, !.seen = Append(c.seen, o),
                      !.swallowed = TRUE]
      [] o = "click_ok" ->
            [c EXCEPT !.sel = NumSelectors + 1, !.seen = Append(c.seen, o),
                      !.clicks = Append(c.clicks, c.sel)]
      [] o = "click_raise" ->
            [c EXCEPT !.seen = Append(c.seen, o),
                      !.clicks = Append(c.clicks, c.sel), !.raised = TRUE]

\* The same turn without the break of line 84.
accept_turn_no_break(c, o) ==
    CASE o = "absent" ->
            [c EXCEPT !.sel = c.sel + 1, !.seen = Append(c.seen, o)]
      [] o = "lookup_raise" ->
            [c EXCEPT !.sel = c.sel + 1, !.seen = Append(c.seen, o),
                      !.swallowed = TRUE]
      [] o = "click_ok" ->
            [c EXCEPT !.sel = c.sel + 1, !.seen = Append(c.seen, o),
                      !.clicks = Append(c.clicks, c.sel)]
      [] o = "click_raise" ->
            [c EXCEPT !.sel = c.sel + 1, !.seen = Append(c.seen, o),
                      !.swallowed = TRUE,
                      !.clicks = Append(c.clicks, c.sel)]

\* c.seen lists what each selector tried so far did, c.clicks the
\* selectors whose element got a click.
accept_turn(c, o) ==
    CASE o = "absent" ->
            [c EXCEPT !.sel = c.sel + 1, !.seen = Append(c.seen, o)]
      [] o = "lookup_raise" ->
            [c EXCEPT !.sel = c.sel + 1, !.seen = Append(c.seen, o),
                      !.swallowed = TRUE]
      [] o = "click_ok" ->
            [c EXCEPT !.sel = NumSelectors + 1, !.seen = Append(c.seen, o),
                      !.clicks = Append(c.clicks, c.sel)]
      [] o = "click_raise" ->
            [c EXCEPT !.sel = c.sel + 1, !.seen = Append(c.seen, o),
                      !.swallowed = TRUE,
                      !.clicks = Append(c.clicks, c.sel)]

\* lines 131 and 154
AcceptCookies(from, to) ==
    /\ pc = from
    /\ \E o \in CookieOutcomes :
        LET c == accept_turn(ck, o)
        IN  /\ ck' = c
            /\ pc' = IF c.raised THEN "unwind"
                     ELSE IF c.sel > NumSelectors THEN to
                     ELSE from
    /\ UNCHANGED <<fn, loopVars, steam_price, goclecd_data, sessionVars, page,
                   product_url, visited, navigated, outcome, ex>>

SearchAcceptCookies == AcceptCookies("s_cookies", "s_idle")

ProductAcceptCookies == AcceptCookies("p_cookies", "p_idle")

\* line 132: wait_for_load_state("networkidle")
SearchIdle ==
    \E ok \in BOOLEAN :
        /\ Step("s_idle", "s_link", ok)
        /\ ck' = CkIdle
        /\ UNCHANGED <<fn, loopVars, steam_price, goclecd_data, sessionVars,
                       page, product_url, visited, navigated, outcome, ex>>

\* lines 135-138: first_link_locator.wait_for(state="attached")
LinkWait ==
    /\ pc = "s_link"
    /\ \E at \in Choices(page.linkAt, LinkDelays, 0) :
        /\ page' = [page EXCEPT !.linkAt = at,
                                !.now = WaitEnd(at, page.now, LinkTimeoutMs)]
        /\ pc' = IF WaitOk(at, page.now, LinkTimeoutMs)
                 THEN "s_count" ELSE "s_grace"
    /\ visited' = Append(visited, "ResolveLink")
    /\ UNCHANGED <<fn, loopVars, steam_price, goclecd_data, sessionVars,
                   product_url, navigated, outcome, ck, ex>>

\* The grace pause followed by a second wait for the link.
LinkGraceRewait ==
    \E ok \in BOOLEAN :
        /\ Step("s_grace", "s_link", ok)
        /\ page' = [page EXCEPT !.now = page.now + LinkGraceMs]
        /\ UNCHANGED <<fn, loopVars, steam_price, goclecd_data, sessionVars,
                       product_url, visited, navigated, outcome, ck, ex>>

\* line 140: page.wait_for_timeout(1500) in the except branch
LinkGrace ==
    \E ok \in BOOLEAN :
        /\ Step("s_grace", "s_count", ok)
        /\ page' = [page EXCEPT !.now = page.now + LinkGraceMs]
        /\ UNCHANGED <<fn, loopVars, steam_price, goclecd_data, sessionVars,
                       product_url, visited, navigated, outcome, ck, ex>>

\* first_link_locator.count(): the links attached by now
LinkCount(pg) == IF pg.linkAt # Never /\ pg.linkAt <= pg.now THEN 1 ELSE 0

\* browser.close() left out.
BrowserCloseSkipped == UNCHANGED sessionVars

\* browser.close()
BrowserClose ==
    /\ browser' = "closed"
    /\ closeCalls' = closeCalls + 1
    /\ UNCHANGED <<pw, teardownKills>>

\* lines 141-144
CountLinks ==
    /\ pc = "s_count"
    /\ \E ok \in BOOLEAN :
        IF ~ok THEN /\ pc' = "unwind"
                    /\ UNCHANGED <<sessionVars, goclecd_data, outcome>>
        ELSE IF LinkCount(page) = 0
        THEN /\ BrowserClose
             /\ goclecd_data' = None
             /\ outcome' = "NotFound"
             /\ pc' = "exit"
        ELSE /\ pc' = "s_href"
             /\ UNCHANGED <<sessionVars, goclecd_data, outcome>>
    /\ UNCHANGED <<fn, loopVars, steam_price, page, product_url, visited,
                   navigated, ck, ex>>

\* `if not product_url`
Falsy(h) == IsNone(h) \/ Val(h) = ""

\* lines 146-149
GetHref ==
    /\ pc = "s_href"
    /\ \E ok \in BOOLEAN, h \in Hrefs :
        IF ~ok THEN /\ pc' = "unwind"
                    /\ UNCHANGED <<sessionVars, goclecd_data, outcome,
                                   product_url>>
        ELSE /\ product_url' = h
             /\ IF Falsy(h)
                THEN /\ BrowserClose
                     /\ goclecd_data' = None
                     /\ outcome' = "NotFound"
                     /\ pc' = "exit"
                ELSE /\ pc' = "p_goto"
                     /\ UNCHANGED <<sessionVars, goclecd_data, outcome>>
    /\ UNCHANGED <<fn, loopVars, steam_price, page, visited, navigated, ck, ex>>

\* line 152
ProductGoto ==
    \E ok \in BOOLEAN :
        /\ Step("p_goto", "p_dom", ok)
        /\ visited' = Append(visited, "ProductNav")
        /\ navigated' = Append(navigated, Url(Val(product_url)))
        /\ page' = BlankPage
        /\ UNCHANGED <<fn, loopVars, steam_price, goclecd_data, sessionVars,
                       product_url, outcome, ck, ex>>

\* lines 155 and 158: wait_for_load_state("networkidle"), then the call of
\* extract_first_offer and its first call of wait_for_offer_rows
ProductIdle ==
    \E ok \in BOOLEAN :
        /\ Step("p_idle", "w_table", ok)
        /\ ck' = CkIdle
        /\ ex' = IF ok THEN [ExIdle EXCEPT !.attempt = 1] ELSE ex
        /\ visited' = IF ok THEN Append(visited, "Extract") ELSE visited
        /\ UNCHANGED <<fn, loopVars, steam_price, goclecd_data, sessionVars,
                       page, product_url, navigated, outcome>>

----------------------------------------------------------------------------
(* wait_for_offer_rows, as called by extract_first_offer.  ex.steps lists  *)
(* what the current call has done, ex.waits how the calls so far ended.   *)

\* The same without the retry of lines 105-107.
WaiterRaisesNoRetry(event) ==
    /\ ex' = [ex EXCEPT !.steps = Append(@, event),
                        !.waits = Append(@, "raised")]
    /\ pc' = "build"

\* The call raises at its step `event`: extract_first_offer catches it
\* (lines 103-109), pauses and retries after the first call, returns
\* (None, None) after the second.
WaiterRaises(event) ==
    /\ ex' = [ex EXCEPT !.steps = Append(@, event),
                        !.waits = Append(@, "raised")]
    /\ pc' = IF ex.attempt = 1 THEN "ex_pause" ELSE "build"

WaiterStep(event, to) ==
    /\ ex' = [ex EXCEPT !.steps = Append(@, event)]
    /\ pc' = to

\* line 90
WaitTable ==
    /\ pc = "w_table"
    /\ \E at \in Choices(page.tableAt, OfferDelays, 0) :
        /\ page' = [page EXCEPT !.tableAt = at,
                                !.now = WaitEnd(at, page.now, OfferTimeoutMs)]
        /\ IF WaitOk(at, page.now, OfferTimeoutMs)
           THEN WaiterStep("table", "w_row")
           ELSE WaiterRaises("table_timeout")
    /\ UNCHANGED <<fn, loopVars, steam_price, goclecd_data, sessionVars,
                   product_url, visited, navigated, outcome, ck>>

\* line 92
WaitRow ==
    /\ pc = "w_row"
    /\ \E at \in Choices(page.rowAt, OfferDelays, page.tableAt) :
        /\ page' = [page EXCEPT !.rowAt = at,
                                !.now = WaitEnd(at, page.now, OfferTimeoutMs)]
        /\ IF WaitOk(at, page.now, OfferTimeoutMs)
           THEN WaiterStep("row", "w_scroll")
           ELSE WaiterRaises("row_timeout")
    /\ UNCHANGED <<fn, loopVars, steam_price, goclecd_data, sessionVars,
                   product_url, visited, navigated, outcome, ck>>

\* line 94
Scroll ==
    /\ pc = "w_scroll"
    /\ \E ok \in BOOLEAN :
        IF ok THEN /\ page' = [page EXCEPT !.scrolled = TRUE]
                   /\ WaiterStep("scroll", "w_price")
        ELSE /\ page' = page
             /\ WaiterRaises("scroll_error")
    /\ UNCHANGED <<fn, loopVars, steam_price, goclecd_data, sessionVars,
                   product_url, visited, navigated, outcome, ck>>

\* Which row holds the first element the price selector of line 96
\* matches: the first row, a later row, or no row.
Holders(known) ==
    IF known # "unknown" THEN {known} ELSE {"row1", "later", "none"}

\* lines 96-97
WaitPrice ==
    /\ pc = "w_price"
    /\ \E h \in Holders(page.holder) :
       \E at \in Choices(page.priceAt, OfferDelays,
                          IF h = "none" THEN Never ELSE page.rowAt) :
        /\ page' = [page EXCEPT !.holder = h, !.priceAt = at,
                                !.now = WaitEnd(at, page.now, OfferTimeoutMs)]
        /\ IF WaitOk(at, page.now, OfferTimeoutMs)
           THEN /\ ex' = [ex EXCEPT !.steps = Append(@, "price"),
                                    !.waits = Append(@, "ok")]
                /\ pc' = "read_price"
           ELSE WaiterRaises("price_timeout")
    /\ UNCHANGED <<fn, loopVars, steam_price, goclecd_data, sessionVars,
                   product_url, visited, navigated, outcome, ck>>

----------------------------------------------------------------------------
(* extract_first_offer *)

\* line 105: page.wait_for_timeout(1000), then the second call
RetryPause ==
    \E ok \in BOOLEAN :
        /\ Step("ex_pause", "w_table", ok)
        /\ page' = [page EXCEPT !.now = page.now + RetryPauseMs]
        /\ ex' = IF ok
                 THEN [ex EXCEPT !.attempt = 2, !.steps = <<>>,
                                 !.paused = TRUE,
                                 !.start = page.now + RetryPauseMs]
                 ELSE ex
        /\ UNCHANGED <<fn, loopVars, steam_price, goclecd_data, sessionVars,
                       product_url, visited, navigated, outcome, ck>>

\* `(el.text_content() or "").strip() if el else None`
TextOf(present, content) ==
    IF present THEN Some(Strip(IF IsNone(content) THEN <<>> ELSE Val(content)))
    ELSE None

\* lines 112-114
ReadPrice ==
    /\ pc = "read_price"
    /\ \E ok \in BOOLEAN, t \in PriceTexts :
        /\ pc' = IF ok THEN "read_merchant" ELSE "unwind"
        /\ ex' = IF ok
                 THEN LET txt == TextOf(page.holder = "row1", t)
                      IN  [ex EXCEPT !.read = TRUE, !.price_text = txt,
                                     !.price = parse_price_text(txt)]
                 ELSE ex
    /\ UNCHANGED <<fn, loopVars, steam_price, goclecd_data, sessionVars, page,
                   product_url, visited, navigated, outcome, ck>>

\* The first row's merchant link: missing, or present with a text.
MerchantEls ==
    {[el |-> FALSE, text |-> None]}
    \cup {[el |-> TRUE, text |-> t] : t \in MerchantTexts}

\* lines 117-120
ReadMerchant ==
    /\ pc = "read_merchant"
    /\ \E ok \in BOOLEAN, m \in MerchantEls :
        /\ pc' = IF ok THEN "build" ELSE "unwind"
        /\ ex' = IF ok
                 THEN LET txt == TextOf(m.el, m.text)
                      IN  [ex EXCEPT !.merchant_el = m.el,
                                     !.merchant_text = txt,
                                     !.merchant =
                                        IF IsNone(txt) THEN Some(NA) ELSE txt]
                 ELSE ex
    /\ UNCHANGED <<fn, loopVars, steam_price, goclecd_data, sessionVars, page,
                   product_url, visited, navigated, outcome, ck>>

----------------------------------------------------------------------------
(* get_goclecd_price, lines 158-168 and the exit of the with block *)

\* The merchant without its default.
MerchantAsRead(m) == IF IsNone(m) THEN <<>> ELSE Val(m)

\* `merchant if merchant else "N/A"`
MerchantOrNA(m) == IF IsNone(m) \/ Val(m) = <<>> THEN NA ELSE Val(m)

\* The quote with the search page as its source.
QuoteOfSearchPage(p, m, u) ==
    [price |-> p, currency |-> "EUR", merchant |-> MerchantOrNA(m),
     url |-> "https://www.goclecd.fr/produits/"]

Quote(p, m, u) ==
    [price |-> p, currency |-> "EUR", merchant |-> MerchantOrNA(m),
     url |-> u]

\* lines 158-165
BuildResult ==
    /\ pc = "build"
    /\ goclecd_data' = Some(Quote(ex.price, ex.merchant, Val(product_url)))
    /\ pc' = "close"
    /\ UNCHANGED <<fn, loopVars, steam_price, sessionVars, page, product_url,
                   visited, navigated, outcome, ck, ex>>

\* line 167
CloseBrowser ==
    /\ pc = "close"
    /\ BrowserClose
    /\ outcome' = "Done"
    /\ pc' = "exit"
    /\ UNCHANGED <<fn, loopVars, steam_price, goclecd_data, page, product_url,
                   visited, navigated, ck, ex>>

\* A browser that outlives get_goclecd_price (no with block).
SessionLeftRunning(b) == b

\* The exit of `with sync_playwright()` (line 126) stops the driver, which
\* ends a browser that is still running.
SessionAfterExit(b) == IF b = "open" THEN "closed" ELSE b

LeaveWith ==
    /\ pw' = FALSE
    /\ browser' = SessionAfterExit(browser)
    /\ teardownKills' = IF browser = "open" /\ browser' = "closed"
                        THEN teardownKills + 1 ELSE teardownKills
    /\ UNCHANGED closeCalls

\* lines 144, 149, 168: a return leaves the with block
ExitWith ==
    /\ pc = "exit"
    /\ LeaveWith
    /\ pc' = "row"
    /\ UNCHANGED <<fn, loopVars, steam_price, goclecd_data, page, product_url,
                   visited, navigated, outcome, ck, ex>>

\* a raised error leaves the with block and get_goclecd_price
Unwind ==
    /\ pc = "unwind"
    /\ LeaveWith
    /\ outcome' = "Failed"
    /\ pc' = "propagate"
    /\ UNCHANGED <<fn, loopVars, steam_price, goclecd_data, page, product_url,
                   visited, navigated, ck, ex>>

----------------------------------------------------------------------------
(* compare_prices_to_excel, lines 185-213 *)

\* An error raised by get_goclecd_price at line 185 leaves the loop.
Propagate ==
    /\ pc = "propagate"
    /\ pc' = Handler
    /\ UNCHANGED <<fn, loopVars, steam_price, goclecd_data, sessionVars, page,
                   product_url, visited, navigated, outcome, ck, ex>>

\* lines 186-201.  round(savings_eur, 2) leaves a whole number of cents as
\* it is; the percentage is rounded to hundredths.
Row(game, steam, data) ==
    LET goclecd_price == IF IsNone(data) THEN None ELSE Val(data).price
        merchant == IF IsNone(data) THEN NA ELSE Val(data).merchant
        goclecd_url == IF IsNone(data) THEN "" ELSE Val(data).url
        savings == calculate_savings(steam, goclecd_price)
    IN  [Jeu |-> game[2], SteamID |-> game[1], PrixSteam |-> steam,
         PrixGoCleCD |-> goclecd_price, Marchand |-> merchant,
         EconomieEur |-> savings[1],
         EconomiePct |-> IF IsNone(savings[2]) THEN None
                         ELSE Some(Round2(Val(savings[2]))),
         Lien |-> goclecd_url]

\* A loop that leaves out the games without a quote.
RowsAfterSkipIncomplete(rows, game, steam, data) ==
    IF IsNone(data) THEN rows ELSE Append(rows, Row(game, steam, data))

\* line 192: results.append
RowsAfter(rows, game, steam, data) == Append(rows, Row(game, steam, data))

\* lines 186-208; the locals of the call that returned are gone
AppendRow ==
    /\ pc = "row"
    /\ results' = RowsAfter(results, games[i], steam_price, goclecd_data)
    /\ i' = i + 1
    /\ pc' = "loop"
    /\ steam_price' = None
    /\ goclecd_data' = None
    /\ page' = BlankPage
    /\ product_url' = None
    /\ visited' = <<>>
    /\ navigated' = <<>>
    /\ outcome' = "none"
    /\ ck' = CkIdle
    /\ ex' = ExIdle
    /\ closeCalls' = 0
    /\ teardownKills' = 0
    /\ browser' = "none"
    /\ UNCHANGED <<fn, games, report, pw>>

\* sort_values(by="Economie (%)", ascending=False, na_position="last")
SortedByPct(rows) ==
    \A k \in 1..(Len(rows) - 1) :
        IF IsNone(rows[k + 1].EconomiePct) THEN TRUE
        ELSE IF IsNone(rows[k].EconomiePct) THEN FALSE
        ELSE Val(rows[k].EconomiePct) >= Val(rows[k + 1].EconomiePct)

\* lines 210-213
WriteReport ==
    /\ pc = "loop"
    /\ i > Len(games)
    /\ \E p \in Permutations(1..Len(results)) :
        LET rows == [k \in 1..Len(results) |-> results[p[k]]]
        IN  /\ SortedByPct(rows)
            /\ report' = Some(rows)
    /\ pc' = "done"
    /\ UNCHANGED <<fn, games, i, results, steam_price, goclecd_data, sessionVars,
                   page, product_url, visited, navigated, outcome, ck, ex>>

----------------------------------------------------------------------------

Next ==
    \/ RequestSteamPrice
    \/ GetSteamPrice
    \/ Launch
    \/ NewPage
    \/ SearchGoto
    \/ SearchDomReady
    \/ SearchAcceptCookies
    \/ SearchIdle
    \/ LinkWait
    \/ LinkGrace
    \/ CountLinks
    \/ GetHref
    \/ ProductGoto
    \/ ProductDomReady
    \/ ProductAcceptCookies
    \/ ProductIdle
    \/ WaitTable
    \/ WaitRow
    \/ Scroll
    \/ WaitPrice
    \/ RetryPause
    \/ ReadPrice
    \/ ReadMerchant
    \/ BuildResult
    \/ CloseBrowser
    \/ ExitWith
    \/ Unwind
    \/ Propagate
    \/ AppendRow
    \/ WriteReport

Spec == Init /\ [][Next]_vars

----------------------------------------------------------------------------
(* Properties *)

\* Positions inside the with block of get_goclecd_price.
InCall ==
    {"new_page", "s_goto", "s_dom", "s_cookies", "s_idle", "s_link",
     "s_grace", "s_count", "s_href", "p_goto", "p_dom", "p_cookies",
     "p_idle", "w_table", "w_row", "w_scroll", "w_price", "ex_pause",
     "read_price", "read_merchant", "build", "close", "exit", "unwind"}

\* get_goclecd_price has been left, by a return or by a raised error.
Left == pc \in {"row", "propagate", "aborted"}

Last(q) == q[Len(q)]

\* C1: once get_goclecd_price has been left, by a return (success or
\* NotFound) or by a raised error, the browser session it opened is closed
\* and the Playwright context is exited; the session is open only inside
\* the call.
C1_SessionReleased ==
    /\ Left => (browser # "open" /\ ~pw)
    /\ browser = "open" => (pc \in InCall /\ pw)
    /\ (Left /\ outcome \in {"Done", "NotFound"}) => browser = "closed"

\* A call that was left by a raised error after the session was opened.
C1_Witness ==
    /\ pc = "propagate"
    /\ outcome = "Failed"
    /\ "SearchNav" \in {visited[k] : k \in 1..Len(visited)}
    /\ browser = "closed"
    /\ closeCalls = 0

\* C2: a failure below the per-game boundary never aborts the run: the run
\* is aborted only when the browser session could not be started at all.
C2_NoFailureAborts == pc = "aborted" => visited = <<"Init">>

\* C3: zero result links after the grace period, or a first link without
\* href, give an absent quote, no product navigation, no extraction, and
\* exactly one close of the session; and the call goes past link
\* resolution only with a link and a non-empty href.
C3_NotFound ==
    /\ outcome = "NotFound" =>
          /\ pc \in {"exit", "row"}
          /\ IsNone(goclecd_data)
          /\ visited = <<"Init", "SearchNav", "ResolveLink">>
          /\ Len(navigated) = 1
          /\ ex = ExIdle
          /\ closeCalls = 1
          /\ teardownKills = 0
          /\ browser = "closed"
          /\ (LinkCount(page) = 0 \/ Falsy(product_url))
    /\ pc = "s_href" => LinkCount(page) > 0
    /\ pc = "p_goto" => ~Falsy(product_url)
    /\ Len(navigated) > 1 => ~Falsy(product_url)

\* The link never showed: NotFound after the grace period.
C3_Witness ==
    /\ pc = "row"
    /\ outcome = "NotFound"
    /\ page.linkAt = Never
    /\ page.now = LinkTimeoutMs + LinkGraceMs
    /\ closeCalls = 1

\* The app ids of a list of games or of rows, as a bag: id -> count.
CountOf(q, id, f(_)) == Cardinality({k \in 1..Len(q) : f(q[k]) = id})

GameId(g) == g[1]

RowId(r) == r.SteamID

Ids == {g[1] : g \in GameSet}

RowIncomplete(r) ==
    /\ IsNone(r.PrixGoCleCD)
    /\ IsNone(r.EconomieEur)
    /\ IsNone(r.EconomiePct)

\* C4: when compare_prices_to_excel reaches the end, the result list holds
\* one row per game of the catalogue, in catalogue order (so the same bag of
\* app ids), and so does the written report; a game whose quote is absent
\* or has no amount gets a row without GoCleCD price and without savings.
C4_OneRowPerGame ==
    /\ pc \in {"loop", "steam", "launch", "row", "done"} \cup InCall =>
          Len(results) = i - 1
    /\ pc = "done" =>
          /\ Len(results) = Len(games)
          /\ \A k \in 1..Len(games) :
                /\ results[k].SteamID = games[k][1]
                /\ results[k].Jeu = games[k][2]
          /\ \A id \in Ids :
                /\ CountOf(results, id, RowId) = CountOf(games, id, GameId)
                /\ CountOf(Val(report), id, RowId)
                      = CountOf(games, id, GameId)
    /\ \A k \in 1..Len(results) :
          IsNone(results[k].PrixGoCleCD) => RowIncomplete(results[k])
    /\ (pc = "row" /\ (IsNone(goclecd_data) \/ IsNone(Val(goclecd_data).price)))
          => RowIncomplete(Row(games[i], steam_price, goclecd_data))

\* A finished run over two different games, the first without a quote.
C4_Witness ==
    /\ pc = "done"
    /\ Len(games) = 2
    /\ games[1][1] # games[2][1]
    /\ results[1].Lien = ""
    /\ IsNone(results[1].PrixGoCleCD)
    /\ ~IsNone(results[2].PrixGoCleCD)

BothWaitsFailed == ex.waits = <<"raised", "raised">>

C5_Quote ==
    BothWaitsFailed =>
       /\ pc \in {"build", "close", "exit", "row"}
       /\ pc # "build" =>
             /\ goclecd_data = Some([price |-> None, currency |-> "EUR",
                                     merchant |-> NA,
                                     url |-> Val(product_url)])
             /\ Val(goclecd_data).merchant # <<>>
             /\ Val(product_url) # ""
             /\ navigated[2] = Url(Val(product_url))

C5_Row ==
    (BothWaitsFailed /\ pc = "row") =>
       /\ Len(results') = Len(results) + 1
       /\ LET r == Last(results')
          IN  /\ r.SteamID = games[i][1]
              /\ RowIncomplete(r)
              /\ r.Marchand = NA
              /\ r.Lien = Val(product_url)

\* C5: when both offer-table waits fail, get_goclecd_price returns a quote
\* with no amount, the sentinel merchant "N/A" and the resolved product
\* URL, and the loop appends the game's row, without GoCleCD price and
\* without savings.
C5_NoOfferTable == []C5_Quote /\ [][C5_Row]_vars

\* The table never attached; the quote is back in the loop.
C5_Witness ==
    /\ pc = "row"
    /\ BothWaitsFailed
    /\ page.tableAt = Never
    /\ ~IsNone(steam_price)

\* C6: extract_first_offer calls wait_for_offer_rows at most twice; the
\* second call happens only after the first raised and after the pause; a
\* call that succeeds is followed by the read of the first row; two
\* failures give (None, None) with no error raised and no third call.
C6_AtMostOneRetry ==
    /\ ex.attempt \in 0..2
    /\ Len(ex.waits) <= ex.attempt
    /\ ex.attempt = 2 => (ex.paused /\ ex.waits[1] = "raised")
    /\ ex.paused => ex.attempt = 2
    /\ (ex.waits # <<>> /\ Last(ex.waits) = "ok") =>
          pc \in {"read_price", "read_merchant", "build", "close", "exit",
                  "row", "unwind", "propagate", "aborted"}
    /\ ex.read => Last(ex.waits) = "ok"
    /\ (pc = "build" /\ ~ex.read) =>
          (BothWaitsFailed /\ IsNone(ex.price) /\ IsNone(ex.merchant))
    /\ BothWaitsFailed =>
          (~ex.read /\ pc \in {"build", "close", "exit", "row"})
    /\ pc = "ex_pause" => ex.waits = <<"raised">>

\* The first call timed out, the second one succeeded and the row was read.
C6_Witness ==
    /\ ex.waits = <<"raised", "ok">>
    /\ ex.read
    /\ ~IsNone(ex.price)

WaiterOrder == <<"table", "row", "scroll", "price">>

WaiterFailure == <<"table_timeout", "row_timeout", "scroll_error",
                   "price_timeout">>

Shown(at, now) == at \notin {Never, Unknown} /\ at <= now

InTime(at) == at \notin {Never, Unknown} /\ at <= ex.start + OfferTimeoutMs

\* C7: wait_for_offer_rows returns a price element only after the table
\* attached, a row attached, the scroll was issued and the price element
\* showed, in this order; a wait that times out fails the call; the call
\* never succeeds on a page whose price element never shows; and a call
\* fails by a timeout only if the table, a row or the price element did
\* not show within the timeout counted from the start of the call.
C7_NoEarlySuccess ==
    /\ Len(ex.steps) <= 4
    /\ \A k \in 1..Len(ex.steps) :
          \/ ex.steps[k] = WaiterOrder[k]
          \/ k = Len(ex.steps) /\ ex.steps[k] = WaiterFailure[k]
    /\ (ex.steps # <<>> /\ Last(ex.steps) = "price") =>
          /\ Last(ex.waits) = "ok"
          /\ Shown(page.tableAt, page.now)
          /\ Shown(page.rowAt, page.now)
          /\ page.scrolled
          /\ Shown(page.priceAt, page.now)
          /\ page.holder \in {"row1", "later"}
    /\ (ex.steps # <<>> /\ Last(ex.steps) \in
            {"table_timeout", "row_timeout", "price_timeout"}) =>
          /\ Last(ex.waits) = "raised"
          /\ Len(ex.waits) = ex.attempt
          /\ ~(InTime(page.tableAt) /\ InTime(page.rowAt)
               /\ InTime(page.priceAt))
    /\ (ex.attempt > 0 /\ page.priceAt = Never) =>
          \A k \in 1..Len(ex.waits) : ex.waits[k] # "ok"
    /\ "ok" \in {ex.waits[k] : k \in 1..Len(ex.waits)} =>
          Shown(page.priceAt, page.now)

\* A call that succeeded only at the end of its budget: the table showed
\* after the first call had timed out.
C7_Witness ==
    /\ pc = "read_price"
    /\ ex.steps = WaiterOrder
    /\ page.tableAt = 30000
    /\ page.priceAt = 30000
    /\ ex.attempt = 2

PipelineOrder == <<"Init", "SearchNav", "ResolveLink", "ProductNav", "Extract">>

IsPrefix(q, r) == Len(q) <= Len(r) /\ \A k \in 1..Len(q) : q[k] = r[k]

\* C8: within one call the pipeline states are entered in the order
\* SearchNav, ResolveLink, ProductNav, Extract, each at most once, and the
\* call ends as NotFound, Failed or Done.
C8_LinearPipeline ==
    /\ IsPrefix(visited, PipelineOrder)
    /\ pc \in {"s_dom", "s_cookies", "s_idle"} =>
          Last(visited) = "SearchNav"
    /\ pc \in {"s_grace", "s_count", "s_href", "p_goto"} =>
          Last(visited) = "ResolveLink"
    /\ pc \in {"p_dom", "p_cookies", "p_idle"} =>
          Last(visited) = "ProductNav"
    /\ pc \in {"w_table", "w_row", "w_scroll", "w_price", "ex_pause",
               "read_price", "read_merchant", "build", "close"} =>
          Last(visited) = "Extract"
    /\ Left => outcome \in {"NotFound", "Failed", "Done"}
    /\ outcome = "Done" => visited = PipelineOrder
    /\ outcome = "NotFound" => Last(visited) = "ResolveLink"
    /\ Len(navigated) <= 2

\* A call that went through every state and returned.
C8_Witness ==
    /\ pc = "row"
    /\ outcome = "Done"
    /\ visited = PipelineOrder

\* C9: a call that resolved a product link and raised at no step returns
\* a quote whose url is the href read from the first result link, which is
\* the URL the product navigation went to, and whose currency is "EUR".
C9_SourceUrl ==
    (outcome = "Done" /\ pc \in {"exit", "row"}) =>
       /\ ~IsNone(goclecd_data)
       /\ ~Falsy(product_url)
       /\ Val(goclecd_data).url = Val(product_url)
       /\ Len(navigated) = 2
       /\ navigated[1] = SearchUrl(games[i][2])
       /\ navigated[2] = Url(Val(product_url))
       /\ Val(goclecd_data).currency = "EUR"

\* A returned quote with a parsed price and a merchant read from the row.
C9_Witness ==
    /\ pc = "row"
    /\ outcome = "Done"
    /\ Val(goclecd_data).price = Some(1250)
    /\ Val(goclecd_data).merchant = <<"S">>

\* C10: accept_cookies_if_present never raises: whatever the lookups and
\* clicks do, no error leaves the call, and get_goclecd_price never fails
\* while the call is running.
C10_ConsentNeverRaises ==
    /\ ~ck.raised
    /\ pc \in {"unwind", "propagate", "aborted"} => ck = CkIdle
    /\ pc \in {"s_cookies", "p_cookies"} => ck.sel \in 1..NumSelectors
    /\ pc \in {"s_idle", "p_idle"} => ck.sel = NumSelectors + 1

\* A call that returned after a failed lookup or click, every click failed.
C10_Witness ==
    /\ pc = "p_idle"
    /\ ck.swallowed
    /\ ck.clicks = <<1, 2, 3, 4>>

----------------------------------------------------------------------------
(* Function specifications: one function, called once on inputs drawn     *)
(* from a bounded set, with the pipeline at rest.                          *)

pipelineVars ==
    <<games, i, results, report, pc, steam_price, goclecd_data, pw, browser,
      closeCalls, teardownKills, page, product_url, visited, navigated,
      outcome, ck, ex>>

PipelineIdle ==
    /\ games = <<>>
    /\ i = 1
    /\ results = <<>>
    /\ report = None
    /\ pc = "function"
    /\ steam_price = None
    /\ goclecd_data = None
    /\ pw = FALSE
    /\ browser = "none"
    /\ closeCalls = 0
    /\ teardownKills = 0
    /\ page = BlankPage
    /\ product_url = None
    /\ visited = <<>>
    /\ navigated = <<>>
    /\ outcome = "none"
    /\ ck = CkIdle
    /\ ex = ExIdle

\* Optional amounts in cents, with the 19.99 / 9.99 of scenario A.
Amounts == {None} \cup {Some(a) : a \in (0..MaxCents) \cup {999, 1999}}

----------------------------------------------------------------------------
(* calculate_savings on its own *)

SavingsInit ==
    /\ PipelineIdle
    /\ fn \in {[op |-> "calculate_savings", pc |-> "call", steam |-> s,
                quote |-> q, out |-> <<None, None>>] :
                   s \in Amounts, q \in Amounts}

CallCalculateSavings ==
    /\ fn.op = "calculate_savings"
    /\ fn.pc = "call"
    /\ fn' = [fn EXCEPT !.pc = "done",
                        !.out = calculate_savings(fn.steam, fn.quote)]
    /\ UNCHANGED pipelineVars

SpecSavings == SavingsInit /\ [][CallCalculateSavings]_vars

\* C11: calculate_savings returns two fields that are both absent or both
\* present; they are absent exactly when the reference is absent, the quote
\* is absent or the reference is zero.
C11_AbsentTogether ==
    (fn.op = "calculate_savings" /\ fn.pc = "done") =>
       /\ IsNone(fn.out[1]) <=> IsNone(fn.out[2])
       /\ IsNone(fn.out[1]) <=>
             (IsNone(fn.steam) \/ IsNone(fn.quote) \/ fn.steam = Some(0))

\* An absent reference with a present quote.
C11_Witness ==
    /\ fn.op = "calculate_savings"
    /\ fn.pc = "done"
    /\ IsNone(fn.steam)
    /\ fn.quote = Some(999)
    /\ fn.out = <<None, None>>

\* C12: for a reference > 0 and a quote >= 0, absolute = reference - quote
\* and percent = 100 * (reference - quote) / reference (as an exact
\* fraction); a quote of zero gives absolute = reference and percent = 100;
\* 1999 and 999 give 1000.
C12_SavingsFormula ==
    (/\ fn.op = "calculate_savings"
     /\ fn.pc = "done"
     /\ ~IsNone(fn.steam)
     /\ ~IsNone(fn.quote)
     /\ fn.steam # Some(0)) =>
       LET ref == Val(fn.steam)
           q == Val(fn.quote)
       IN  /\ fn.out[1] = Some(ref - q)
           /\ ~IsNone(fn.out[2])
           /\ Val(fn.out[2]).den > 0
           /\ Val(fn.out[2]).num * ref = 100 * (ref - q) * Val(fn.out[2]).den
           /\ q = 0 => /\ fn.out[1] = Some(ref)
                       /\ Val(fn.out[2]).num = 100 * Val(fn.out[2]).den
           /\ (ref = 1999 /\ q = 999) => fn.out[1] = Some(1000)

\* Scenario A: 19.99 against 9.99.
C12_Witness ==
    /\ fn.op = "calculate_savings"
    /\ fn.pc = "done"
    /\ fn.steam = Some(1999)
    /\ fn.quote = Some(999)
    /\ fn.out[1] = Some(1000)
    /\ Round2(Val(fn.out[2])) = 5003

----------------------------------------------------------------------------
(* get_steam_price on its own *)

AppIds == {10, 20, 730}

\* The replies of the pipeline, with more final prices.
SteamReplies ==
    {[kind |-> k, final |-> 0] : k \in SteamFailures \cup SteamNoOverview}
    \cup {SteamFinal(Val(a)) : a \in Amounts \ {None}}

SteamInit ==
    /\ PipelineIdle
    /\ fn \in {[op |-> "get_steam_price", pc |-> "call", app_id |-> a,
                country |-> "fr", reply |-> r, out |-> Returned(None)] :
                   a \in AppIds, r \in SteamReplies}

CallGetSteamPrice ==
    /\ fn.op = "get_steam_price"
    /\ fn.pc = "call"
    /\ fn' = [fn EXCEPT !.pc = "done", !.out = get_steam_price(fn.reply)]
    /\ UNCHANGED pipelineVars

SpecSteam == SteamInit /\ [][CallGetSteamPrice]_vars

SteamDone == fn.op = "get_steam_price" /\ fn.pc = "done"

\* C13 as stated: get_steam_price returns an absent amount, never zero,
\* when success is false and when a successful response has no price
\* overview; zero is returned only for a final price of zero.
C13_AbsentNeverZero ==
    SteamDone =>
       /\ fn.reply.kind \in {"success_false"} \cup SteamNoOverview =>
             IsNone(fn.out.value)
       /\ fn.out.value = Some(0) => fn.reply = SteamFinal(0)

\* C13 as amended: get_steam_price returns an absent amount when success
\* is false, and zero when a successful response has no (or an empty)
\* price overview; zero is returned then and for a final price of zero,
\* and in no other case.
C13_ZeroWithoutOverview ==
    SteamDone =>
       /\ ~fn.out.raised
       /\ fn.reply.kind = "success_false" => IsNone(fn.out.value)
       /\ fn.reply.kind \in SteamNoOverview => fn.out.value = Some(0)
       /\ fn.reply.kind = "final" => fn.out.value = Some(fn.reply.final)
       /\ fn.out.value = Some(0) <=>
             (fn.reply.kind \in SteamNoOverview \/ fn.reply = SteamFinal(0))

\* A successful response without price overview, answered by zero.
C13_Witness ==
    /\ SteamDone
    /\ fn.reply.kind = "no_price_overview"
    /\ fn.out = Returned(Some(0))

----------------------------------------------------------------------------

C20_NoAbort ==
    /\ pc = "steam" => fn.op = "get_steam_price"
    /\ pc = "aborted" => outcome = "Failed"
    /\ (pc = "row" /\ IsNone(steam_price)) =>
          LET r == Row(games[i], steam_price, goclecd_data)
          IN  /\ IsNone(r.PrixSteam)
              /\ IsNone(r.EconomieEur)
              /\ IsNone(r.EconomiePct)

C20_Step ==
    pc = "steam" =>
       /\ pc' = "launch"
       /\ fn.reply.kind \in SteamFailures => IsNone(steam_price')

\* C20: get_steam_price raises no error to the loop: after a failed
\* request, a body that is no JSON, a missing key or success = false it
\* returns None and the loop goes on to get_goclecd_price; the run is
\* aborted only by a failure of get_goclecd_price, and a game without
\* Steam price gets a row without savings.
C20_SteamNeverRaises == []C20_NoAbort /\ [][C20_Step]_vars

\* The first game had no Steam price; the loop is at the second game's row,
\* which has a quote.
C20_Witness ==
    /\ pc = "row"
    /\ i = 2
    /\ IsNone(results[1].PrixSteam)
    /\ IsNone(steam_price)
    /\ ~IsNone(goclecd_data)
    /\ Val(goclecd_data).price = Some(1250)

----------------------------------------------------------------------------
(* The first offer: what the quote's amount and merchant come from *)

HasDigit(t) == \E k \in 1..Len(t) : t[k] \in Digits

\* The first row's price text has a number in it.
Parseable(txt) == IF IsNone(txt) THEN FALSE ELSE HasDigit(Val(txt))

Returning == pc \in {"close", "exit", "row"} /\ ~IsNone(goclecd_data)

\* C14: the amount of a quote is present only if it was parsed from the
\* page: one of the at most two waits succeeded, the first row's price
\* element was there when read, and parse_price_text gave a value for its
\* text; when both waits failed, the price element was missing or its text
\* had no number, the amount is absent and the quote is still returned.
C14_AmountOnlyIfParsed ==
    /\ ~IsNone(ex.price) =>
          /\ ex.read
          /\ Len(ex.waits) <= 2
          /\ Last(ex.waits) = "ok"
          /\ page.holder = "row1"
          /\ Parseable(ex.price_text)
          /\ ex.price = parse_price_text(ex.price_text)
    /\ BothWaitsFailed => IsNone(ex.price)
    /\ (ex.read /\ (page.holder # "row1" \/ ~Parseable(ex.price_text))) =>
          IsNone(ex.price)
    /\ Returning => Val(goclecd_data).price = ex.price
    /\ (pc \in {"build", "close"} /\ IsNone(ex.price)) => outcome # "Failed"

\* Two quotes back in the loop: the first game's without amount although
\* its row was read, the second one's with the amount 12.50 parsed after
\* the retry.
C14_Witness ==
    /\ pc = "row"
    /\ i = 2
    /\ results[1].Lien # ""
    /\ results[1].Marchand # NA
    /\ IsNone(results[1].PrixGoCleCD)
    /\ Returning
    /\ Val(goclecd_data).price = Some(1250)
    /\ ex.waits = <<"raised", "ok">>

\* C17: when wait_for_offer_rows has returned, the element that
\* extract_first_offer reads next, the price span of the first row, exists
\* and is visible, also when only a later row has a price cell.
C17_FirstRowPriceVisible ==
    (ex.steps # <<>> /\ Last(ex.steps) = "price") => page.holder = "row1"

Clicked(o) == o \in {"click_ok", "click_raise"}

\* C18 as stated: one call of accept_cookies_if_present makes at most one
\* click attempt, on the first selector whose element is found, also when
\* that click fails.
C18_AtMostOneClick ==
    /\ Len(ck.clicks) <= 1
    /\ \A j \in 1..Len(ck.seen) :
          Clicked(ck.seen[j]) => \A k \in 1..(j - 1) : ~Clicked(ck.seen[k])

\* C18: the selectors are tried in their fixed order, each at most once;
\* the first click attempt goes to the first selector whose element is
\* found; a click that succeeds ends the call, so that no selector after
\* it is tried or clicked; a click that fails is swallowed and the next
\* selectors are tried, so that every click attempt but the last one of a
\* call is a failed one.
C18_ClicksInPriorityOrder ==
    /\ Len(ck.seen) <= NumSelectors
    /\ ck.sel \in 1..NumSelectors => Len(ck.seen) = ck.sel - 1
    /\ Len(ck.clicks) <= Len(ck.seen)
    /\ \A k \in 1..Len(ck.clicks) :
          /\ ck.clicks[k] \in 1..Len(ck.seen)
          /\ Clicked(ck.seen[ck.clicks[k]])
          /\ k < Len(ck.clicks) =>
                /\ ck.clicks[k] < ck.clicks[k + 1]
                /\ ck.seen[ck.clicks[k]] = "click_raise"
    /\ \A j \in 1..Len(ck.seen) :
          /\ Clicked(ck.seen[j]) =>
                \E k \in 1..Len(ck.clicks) : ck.clicks[k] = j
          /\ ck.seen[j] = "click_ok" =>
                (j = Len(ck.seen) /\ ck.sel = NumSelectors + 1)

\* The first selector found nothing, the click on the second one failed
\* and the click on the third one ended the call.
C18_Witness ==
    /\ pc = "s_idle"
    /\ ck.seen = <<"absent", "click_raise", "click_ok">>
    /\ ck.clicks = <<2, 3>>

\* The merchant of lines 117-120 and 164 for what the first row held.
MerchantRead ==
    IF ex.merchant_el /\ ~IsNone(ex.merchant_text)
       /\ ex.merchant_text # Some(<<>>)
    THEN Val(ex.merchant_text)
    ELSE NA

\* C19: once a wait succeeded, the price and the merchant are read
\* independently: without price element the amount is absent and the
\* merchant text is still returned; without merchant element, or with an
\* empty merchant text, the merchant is "N/A" and the parsed amount is
\* still returned; neither case raises, and the merchant of a quote is
\* never empty.
C19_IndependentReads ==
    /\ pc = "read_merchant" => ex.read
    /\ (pc = "build" /\ ex.read) => ~IsNone(ex.merchant)
    /\ ex.merchant_el =>
          (ex.read /\ pc \in {"build", "close", "exit", "row"})
    /\ Returning =>
          /\ Val(goclecd_data).merchant # <<>>
          /\ ex.read =>
                /\ Val(goclecd_data).price = parse_price_text(ex.price_text)
                /\ Val(goclecd_data).merchant = MerchantRead
                /\ page.holder # "row1" => IsNone(ex.price_text)

\* Two quotes back in the loop: the first game's with the merchant "N/A"
\* and a parsed amount, the second one's without price element and with
\* the merchant that was read.
C19_Witness ==
    /\ pc = "row"
    /\ i = 2
    /\ results[1].Marchand = NA
    /\ ~IsNone(results[1].PrixGoCleCD)
    /\ Returning
    /\ page.holder = "later"
    /\ IsNone(Val(goclecd_data).price)
    /\ Val(goclecd_data).merchant = <<"S">>

----------------------------------------------------------------------------
(* parse_price_text on its own: every text up to MaxLen over an alphabet *)

MaxLen == 4

\* Two digits, the two separators, a blank and a character that line 68
\* removes.
Alphabet == {"1", "5", ",", ".", " ", "E"}

ParseExamples ==
    {<<"1", "2", ",", "5", "0", " ", "E">>,
     <<"1", " ", "2", "3", "4", ",", "9", "0">>}

ParseInputs ==
    {None} \cup {Some(t) : t \in SeqsUpTo(Alphabet, MaxLen) \cup ParseExamples}

ParseInit ==
    /\ PipelineIdle
    /\ fn \in {[op |-> "parse_price_text", pc |-> "call", text |-> t,
                out |-> None] : t \in ParseInputs}

\* lines 64-70
CallParsePriceText ==
    /\ fn.op = "parse_price_text"
    /\ fn.pc = "call"
    /\ fn' = [fn EXCEPT !.pc = "done", !.out = parse_price_text(fn.text)]
    /\ UNCHANGED pipelineVars

SpecParse == ParseInit /\ [][CallParsePriceText]_vars

ParseDone == fn.op = "parse_price_text" /\ fn.pc = "done"

IsKept(c) == c \in Digits \cup {",", ".", " "}

\* The characters of t that are digits, commas, periods or blanks.
KeptOf(t) == SelectSeq(t, IsKept)

IsDigitAt(c, k) == k \in 1..Len(c) /\ c[k] \in Digits

\* v is the value, in cents, of the number that starts at the leftmost
\* digit of c: its run of n digits and, when a comma or period and a digit
\* follow the run, the f = 1 or 2 digits after it.
FirstNumber(c, v) ==
    \E s \in 1..Len(c), n \in 1..Len(c), f \in 0..2 :
        /\ \A k \in 1..(s - 1) : ~IsDigitAt(c, k)
        /\ \A k \in s..(s + n - 1) : IsDigitAt(c, k)
        /\ ~IsDigitAt(c, s + n)
        /\ f = IF s + n <= Len(c) /\ c[s + n] \in {",", "."}
                  /\ IsDigitAt(c, s + n + 1)
               THEN (IF IsDigitAt(c, s + n + 2) THEN 2 ELSE 1)
               ELSE 0
        /\ v = 100 * DigitsValue(SubSeq(c, s, s + n - 1))
               + (CASE f = 0 -> 0
                    [] f = 1 -> 10 * DigitVal(c[s + n + 1])
                    [] f = 2 -> 10 * DigitVal(c[s + n + 1])
                                + DigitVal(c[s + n + 2]))

\* C15: for every text over the alphabet, parse_price_text returns None for
\* a null or empty text and for a text without digit; otherwise, with the
\* characters other than digits, commas, periods and blanks removed and a
\* comma read as a period, it returns the value of the leftmost run of
\* digits with, if a period and digits follow, one or two of them, and
\* ignores every later number: "12,50 E" gives 12.50 and "1 234,90" gives 1.
C15_FirstNumber ==
    ParseDone =>
       /\ (IsNone(fn.text) \/ ~Parseable(fn.text)) => IsNone(fn.out)
       /\ Parseable(fn.text) =>
             /\ ~IsNone(fn.out)
             /\ FirstNumber(KeptOf(Val(fn.text)), Val(fn.out))
       /\ fn.text = Some(<<"1", "2", ",", "5", "0", " ", "E">>) =>
             fn.out = Some(1250)
       /\ fn.text = Some(<<"1", " ", "2", "3", "4", ",", "9", "0">>) =>
             fn.out = Some(100)
       /\ fn.text = Some(<<"E", "1", ",", "5">>) => fn.out = Some(150)
       /\ fn.text = Some(<<"1", "E", "5">>) => fn.out = Some(1500)
       /\ fn.text = Some(<<".", "5", " ", "1">>) => fn.out = Some(500)

\* A text with a thousands blank: only the first run of digits counts.
C15_Witness ==
    /\ ParseDone
    /\ fn.text = Some(<<"1", " ", "2", "3", "4", ",", "9", "0">>)
    /\ fn.out = Some(100)

----------------------------------------------------------------------------
(* get_steam_top_sellers, lines 11-42 *)

MaxPages == 2

MaxRows == 2

\* A search_result_row: its data-ds-appid, if any, and the text of its
\* title span, if any.
ResultRows ==
    {[appid |-> None, title |-> Some(<<"A">>)],
     [appid |-> Some(10), title |-> Some(<<"A">>)],
     [appid |-> Some(20), title |-> None]}

\* The answers to a page request: a status other than 200, or 200 with the
\* page's rows (none for a page without results).
Responses ==
    {[status |-> 500, rows |-> <<>>]}
    \cup {[status |-> 200, rows |-> q] : q \in SeqsUpTo(ResultRows, MaxRows)}

\* A finite listing: its pages, then pages without results.
Listings == SeqsUpTo(Responses, MaxPages)

PageOf(listing, p) ==
    IF p + 1 <= Len(listing) THEN listing[p + 1]
    ELSE [status |-> 200, rows |-> <<>>]

\* lines 34-36
GameOf(row) ==
    <<Val(row.appid), IF IsNone(row.title) THEN NA ELSE Val(row.title)>>

\* The for loop of lines 31-38 without its break.
RECURSIVE CollectAll(_, _, _)
CollectAll(games_list, rows, max_games) ==
    IF rows = <<>> THEN games_list
    ELSE IF IsNone(Head(rows).appid)
         THEN CollectAll(games_list, Tail(rows), max_games)
         ELSE CollectAll(Append(games_list, GameOf(Head(rows))), Tail(rows),
                         max_games)

\* lines 31-38
RECURSIVE Collect(_, _, _)
Collect(games_list, rows, max_games) ==
    IF rows = <<>> THEN games_list
    ELSE IF IsNone(Head(rows).appid)
         THEN Collect(games_list, Tail(rows), max_games)
         ELSE LET longer == Append(games_list, GameOf(Head(rows)))
              IN  IF Len(longer) >= max_games THEN longer
                  ELSE Collect(longer, Tail(rows), max_games)

TopInit ==
    /\ PipelineIdle
    /\ fn \in {[op |-> "get_steam_top_sellers", pc |-> "while",
                listing |-> l, max_games |-> n, games_list |-> <<>>,
                page |-> 0, search_results |-> <<>>, requests |-> 0,
                out |-> None] :
                   l \in Listings, n \in 0..(MaxPages + 1)}

InTop(at) == fn.op = "get_steam_top_sellers" /\ fn.pc = at

\* lines 18-29: the loop test and the page request; the request may raise.
TopRequest ==
    /\ InTop("while")
    /\ Len(fn.games_list) < fn.max_games
    /\ \E answered \in BOOLEAN :
        LET response == PageOf(fn.listing, fn.page)
        IN  fn' = IF ~answered
                  THEN [fn EXCEPT !.pc = "raised",
                                  !.requests = fn.requests + 1]
                  ELSE IF response.status # 200 \/ response.rows = <<>>
                  THEN [fn EXCEPT !.pc = "return",
                                  !.requests = fn.requests + 1]
                  ELSE [fn EXCEPT !.pc = "for",
                                  !.requests = fn.requests + 1,
                                  !.search_results = response.rows]
    /\ UNCHANGED pipelineVars

\* lines 31-40
TopCollect ==
    /\ InTop("for")
    /\ fn' = [fn EXCEPT !.pc = "while",
                        !.games_list = Collect(fn.games_list,
                                               fn.search_results,
                                               fn.max_games),
                        !.page = fn.page + 1]
    /\ UNCHANGED pipelineVars

\* line 42, reached by the loop test or by a break
TopReturn ==
    /\ \/ InTop("return")
       \/ InTop("while") /\ Len(fn.games_list) >= fn.max_games
    /\ fn' = [fn EXCEPT !.pc = "done", !.out = Some(fn.games_list)]
    /\ UNCHANGED pipelineVars

TopNext == TopRequest \/ TopCollect \/ TopReturn

\* The function runs on until it returns or raises.
SpecTop == TopInit /\ [][TopNext]_vars /\ WF_vars(TopNext)

\* The games of the first k pages of the listing, in listing order.
RECURSIVE GamesOfPages(_, _)
GamesOfPages(listing, k) ==
    IF k = 0 THEN <<>>
    ELSE GamesOfPages(listing, k - 1)
         \o CollectAll(<<>>, listing[k].rows, 0)

HasResults(response) == response.status = 200 /\ response.rows # <<>>

TopOrdered ==
    fn.op = "get_steam_top_sellers" =>
       /\ Len(fn.games_list) <= fn.max_games
       /\ fn.page <= Len(fn.listing)
       /\ fn.requests <= Len(fn.listing) + 1
       /\ fn.requests \in {fn.page, fn.page + 1}
       /\ \A k \in 1..fn.page : HasResults(fn.listing[k])
       /\ IsPrefix(fn.games_list, GamesOfPages(fn.listing, fn.page))
       /\ fn.requests > 0 =>
             Len(GamesOfPages(fn.listing, fn.requests - 1)) < fn.max_games
       /\ fn.pc = "done" =>
             /\ fn.out = Some(fn.games_list)
             /\ \/ Len(fn.games_list) = fn.max_games
                \/ /\ fn.requests = fn.page + 1
                   /\ ~HasResults(PageOf(fn.listing, fn.page))
                   /\ fn.games_list = GamesOfPages(fn.listing, fn.page)

TopEnded == fn.pc \in {"done", "raised"}

\* C16: on a finite listing get_steam_top_sellers ends, and what it returns
\* is at most max_games games in listing order: the games of the pages in
\* front of the first page that has no results or a status other than 200,
\* cut at max_games; no page is requested once max_games games are
\* collected or after such a page.
C16_TopSellers == []TopOrdered /\ <>TopEnded

\* The count was met in the middle of the second page, after a first page
\* with a row that has no app id.
C16_Witness ==
    /\ InTop("done")
    /\ fn.max_games = 2
    /\ fn.requests = 2
    /\ Len(fn.listing) = 2
    /\ Len(fn.listing[1].rows) = 2
    /\ IsNone(fn.listing[1].rows[1].appid)
    /\ Len(fn.listing[2].rows) = 2
    /\ fn.out = Some(<<<<10, <<"A">>>>, <<20, NA>>>>)
============================================================================
